---- MODULE Spec2Model ----
(***************************************************************************)
(* Khatma: the claim-coordination server (server/src/index.ts).            *)
(*                                                                         *)
(* The store is PostgreSQL at READ COMMITTED: every statement sees the     *)
(* rows committed when it runs, a transaction's own writes stay private    *)
(* until COMMIT, and a row lock (SELECT .. FOR UPDATE, UPDATE) is held to  *)
(* the end of the transaction.  Every `await` of a handler is a point      *)
(* where another handler may run, so each handler is a sequence of steps,  *)
(* one per statement (or per group of statements nobody can tell apart).   *)
(*                                                                         *)
(* Text values are sequences of one-character strings, so that trim and    *)
(* normalizePhone are computed, not assumed.                               *)
(***************************************************************************)
EXTENDS Integers, Sequences, FiniteSets, TLC

\* ------------------------------------------------------------- bounds
\* Requests accepted in one run of the general specification.
MaxReqs == 2
\* Claim requests racing for one part in the claim-race specification.
MaxRacers == 3
\* Connections of the pool, and the requests accepted together.
PoolSize == 2

\* ---------------------------------------------------------- constants
\* generate_series(1,30): the parts of a week.
NumParts == 30

\* SQL null / JS null / JS undefined for a text value.
NULL == <<"NULL">>
\* SQL null for a reference to a user or a week.
NoId == "none"
\* SQL null for claimed_at (times are positive).
NoTime == 0
\* Number(x) for a path segment that is not a number.
NaN == -1

\* DEFAULT_ADMIN_NAME, already trimmed.
DEFAULT_ADMIN_NAME == <<"M">>
\* ADMIN_PHONE_LIST, already normalized.
ADMIN_PHONE_LIST == {<<"+", "9">>}

\* Ids the store can assign.
UserIds == {"u1", "u2", "u3", "u4"}
WeekIds == {"w1", "w2"}
\* Week keys a caller may name.
WeekKeys == {"K1", "K2"}
\* Request-handling contexts that may be in flight together.
Procs == {"p1", "p2"}

\* ------------------------------------------------------ text functions
IsSpace(c) == c = " "

\* JS falsiness of a text value: null, undefined or "".
Falsy(s) == s = NULL \/ s = <<>>

RECURSIVE TrimStart(_)
TrimStart(s) ==
  IF s # <<>> /\ IsSpace(Head(s)) THEN TrimStart(Tail(s)) ELSE s

RECURSIVE TrimEnd(_)
TrimEnd(s) ==
  IF s # <<>> /\ IsSpace(s[Len(s)]) THEN TrimEnd(SubSeq(s, 1, Len(s) - 1)) ELSE s

\* String.prototype.trim
Trim(s) == TrimEnd(TrimStart(s))

\* raw.replace(/\s+/g, "")
RECURSIVE StripSpaces(_)
StripSpaces(s) ==
  IF s = <<>> THEN <<>>
  ELSE IF IsSpace(Head(s)) THEN StripSpaces(Tail(s))
  ELSE <<Head(s)>> \o StripSpaces(Tail(s))

\* x || y on text values
OrElse(x, y) == IF Falsy(x) THEN y ELSE x

\* profile.name?.trim(): undefined stays undefined
OptTrim(s) == IF s = NULL THEN NULL ELSE Trim(s)

normalizePhone(raw) ==
  IF Falsy(raw) THEN NULL
  ELSE LET cleaned == StripSpaces(raw) IN
       IF cleaned = <<>> \/ Head(cleaned) # "+" THEN <<"+">> \o cleaned
       ELSE cleaned

\* The flag computed from the policy alone, the current flag dropped.
computeAdminFlagPolicyOnly(name, phone, current) ==
  LET matchName == ~Falsy(DEFAULT_ADMIN_NAME) /\ ~Falsy(name) /\ name = DEFAULT_ADMIN_NAME
      matchPhone == ~Falsy(phone) /\ phone \in ADMIN_PHONE_LIST
  IN matchName \/ matchPhone

computeAdminFlag(name, phone, current) ==
  LET matchName == ~Falsy(DEFAULT_ADMIN_NAME) /\ ~Falsy(name) /\ name = DEFAULT_ADMIN_NAME
      matchPhone == ~Falsy(phone) /\ phone \in ADMIN_PHONE_LIST
  IN current \/ matchName \/ matchPhone

\* ---------------------------------------------------------------- rows
\* A users row as a handler holds it (DbUserRow); NoUser: no row.
NoUser == [id |-> NoId, name |-> NULL, phone |-> NULL, is_admin |-> FALSE]
UserRow(id, r) == [id |-> id, name |-> r.name, phone |-> r.phone, is_admin |-> r.is_admin]

\* A parts row: claimed_by, claimed_name, claimed_at.
FreePart == [claimed_by |-> NoId, claimed_name |-> NULL, claimed_at |-> NoTime]
\* insert into parts .. generate_series(1,30)
NewParts == [n \in 1..NumParts |-> FreePart]

\* claimed_is_admin of a PartRow: a boolean or null.
AdminText(b) == IF b THEN "true" ELSE "false"

\* The PartRow payload of part:update and of the claim/release responses.
NoPayload == [number |-> 0, claimed_by |-> NoId, claimed_name |-> NULL, claimed_is_admin |-> "null"]

VARIABLES
  users,    \* table users: id -> [name, phone, is_admin]
  weeks,    \* table weeks: id -> week_key (committed rows)
  parts,    \* table parts: week id -> (number -> row) (committed rows)
  locks,    \* row locks on parts: <<week id, number, proc>>
  h,        \* the handlers in flight: proc -> its locals and position
  events,   \* what io.to(room).emit published, in order
  nreq      \* requests accepted so far

vars == <<users, weeks, parts, locks, h, events, nreq>>


\* ------------------------------------------------------------ handlers
\* A handler's locals.  kind names the route; pc the statement it is about
\* to run; err the failure its catch / early return will answer with.
Idle ==
  [pc |-> "idle", kind |-> "", id |-> 0,
   caller |-> NoId,        \* session.userId
   tokenAdmin |-> FALSE,   \* session.isAdmin, as the token asserts it
   client |-> FALSE,       \* holds the PoolClient of pool.connect()
   weekId |-> NoId,        \* :weekId, or body.weekId of the admin route
   weekKey |-> "",         \* :weekKey
   n |-> 0,                \* Number(:number), or body.partNumber
   pname |-> NULL,         \* profile.name / body.name
   pphone |-> NULL,        \* profile.phone / body.phone
   mk |-> "none",          \* body.makeAdmin: "true", "false", or not a boolean
   target |-> NoId,        \* :userId
   user |-> NoUser,        \* user / actor
   existing |-> NoUser,    \* existing (updateUserProfile), current (loginUser)
   seen |-> NoId,          \* existing.rows[0].claimed_by
   found |-> FALSE,        \* existing.rowCount # 0
   wk |-> NoId,            \* week.id
   newWeek |-> NoId,       \* weeks row inserted by this transaction
   newParts |-> FALSE,     \* parts rows inserted by this transaction
   tx |-> "none",          \* uncommitted write: "part" (one row) or "clear" (a week)
   wr |-> FreePart,        \* the row an uncommitted "part" write sets
   err |-> "",
   result |-> "",          \* "" while running, then "OK" or the error
   resp |-> NoPayload,     \* the PartRow answered
   snap |-> <<>>,          \* the parts[] answered
   emitted |-> 0,          \* events this request published
   joined |-> FALSE,       \* the caller's socket is in the room of week.id
   missed |-> 0,           \* events published before it was
   committed |-> FALSE]    \* its transaction's COMMIT has run

\* r with the fields of s replaced.
With(r, s) == [f \in DOMAIN r |-> IF f \in DOMAIN s THEN s[f] ELSE r[f]]

Step(p, s) == h' = [h EXCEPT ![p] = With(h[p], s)]

At(p, kinds, pc) == h[p].pc = pc /\ h[p].kind \in kinds

\* The step taken is one of handler p's own request.
Steps(p) == h'[p] # h[p] /\ h'[p].id = h[p].id

\* Express hands a request to a handler context that is not running one.
Accept(p, req) ==
  /\ h[p].pc \in {"idle", "done"}
  /\ nreq < MaxReqs
  /\ nreq' = nreq + 1
  /\ h' = [h EXCEPT ![p] = With(With(Idle, req), [id |-> nreq + 1])]

\* ---------------------------------------------------------------- store
\* select .. from users where id=$1
UserById(id) == IF id \in DOMAIN users THEN UserRow(id, users[id]) ELSE NoUser

\* select .. from users where phone=$1 (rows[0])
UserByPhone(phone) ==
  IF \E id \in DOMAIN users : users[id].phone = phone
  THEN LET id == CHOOSE i \in DOMAIN users : users[i].phone = phone
       IN UserRow(id, users[id])
  ELSE NoUser

\* select id from weeks where week_key=$1
WeekByKey(key) ==
  IF \E w \in DOMAIN weeks : weeks[w] = key
  THEN CHOOSE w \in DOMAIN weeks : weeks[w] = key
  ELSE NoId

PartExists(w, n) == w \in DOMAIN parts /\ n \in DOMAIN parts[w]

\* The select without FOR UPDATE: no row lock is waited for.
LockFreeNoForUpdate(w, n, p) == TRUE

\* The row lock of FOR UPDATE / UPDATE: granted when no other transaction
\* holds the row.
LockFree(w, n, p) == \A l \in locks : ~(l[1] = w /\ l[2] = n /\ l[3] # p)

LocksOf(p) == {l \in locks : l[3] = p}

\* u.is_admin as claimed_is_admin of the left join
JoinAdmin(claimedBy) ==
  IF claimedBy \in DOMAIN users THEN AdminText(users[claimedBy].is_admin) ELSE "null"

\* One PartRow of the join in fetchParts and in the admin route.
PartRowOf(w, n) ==
  [number |-> n,
   claimed_by |-> parts[w][n].claimed_by,
   claimed_name |-> parts[w][n].claimed_name,
   claimed_is_admin |-> JoinAdmin(parts[w][n].claimed_by)]

fetchParts(w) ==
  IF w \in DOMAIN parts THEN [n \in DOMAIN parts[w] |-> PartRowOf(w, n)] ELSE <<>>

\* io.to(room).emit(type, ..)
\* by: the request that published; afterCommit: its COMMIT (or autocommit
\* statement) had run when it published.
NoEvent ==
  [type |-> "", room |-> NoId, by |-> 0, afterCommit |-> FALSE, part |-> NoPayload,
   parts |-> <<>>]
Emit(e) == events' = Append(events, With(NoEvent, e))


\* Kinds whose catch block awaits ROLLBACK before it answers.
TxKinds == {"resolve", "claim", "release", "reset"}

\* The generic failure of each route's catch block.
Failure(kind) ==
  CASE kind = "login" -> "LOGIN_FAILED"
    [] kind = "profile" -> "PROFILE_FAILED"
    [] kind = "resolve" -> "WEEK_FETCH_FAILED"
    [] kind = "claim" -> "CLAIM_FAILED"
    [] kind = "release" -> "RELEASE_FAILED"
    [] kind = "reset" -> "RESET_FAILED"
    [] OTHER -> "ADMIN_TOGGLE_FAILED"

\* An exception reaches the route's catch block: the transactional routes
\* await ROLLBACK first, the others answer at once.
Throw(p) ==
  IF h[p].kind \in TxKinds
  THEN Step(p, [pc |-> "rollback", err |-> Failure(h[p].kind)])
  ELSE Step(p, [pc |-> "done", result |-> Failure(h[p].kind)])

\* unique (phone) on users, as the data model states it.
PhoneConflict(phone, self) ==
  phone # NULL /\ \E id \in DOMAIN users \ {self} : users[id].phone = phone

\* unique (week_key) on weeks, as the week directory states it.
WeekKeyConflict(key) == \E w \in DOMAIN weeks : weeks[w] = key

PutUser(id, row) ==
  users' = [i \in DOMAIN users \cup {id} |->
              IF i = id THEN [name |-> row.name, phone |-> row.phone, is_admin |-> row.is_admin]
              ELSE users[i]]

\* ------------------------------------------------- POST /api/auth/login
\* reqs: the bodies [pname, pphone] a caller may send.
StartLogin(p, reqs) ==
  \E r \in reqs :
    LET bad == Falsy(r.pname) \/ Falsy(r.pphone) IN
    /\ Accept(p, [kind |-> "login",
                          pc |-> IF bad THEN "done" ELSE "loginSelect",
                          result |-> IF bad THEN "NAME_AND_PHONE_REQUIRED" ELSE ""] @@ r)
    /\ UNCHANGED <<users, weeks, parts, locks, events>>

\* loginUser: select .. from users where phone=$1
LoginSelect(p) ==
  /\ At(p, {"login"}, "loginSelect")
  /\ Step(p, [pc |-> "loginWrite", existing |-> UserByPhone(normalizePhone(h[p].pphone))])
  /\ UNCHANGED <<users, weeks, parts, locks, events, nreq>>

\* loginUser: the update of the row found, or the insert of a new one
LoginWrite(p) ==
  /\ At(p, {"login"}, "loginWrite")
  /\ LET name == OrElse(Trim(h[p].pname), NULL)
         phone == normalizePhone(h[p].pphone)
         current == h[p].existing
     IN IF current # NoUser
        THEN LET row == [id |-> current.id, name |-> OrElse(name, current.name),
                         phone |-> phone,
                         is_admin |-> computeAdminFlag(OrElse(name, current.name), phone,
                                                       current.is_admin)]
             IN IF PhoneConflict(phone, current.id)
                THEN Throw(p) /\ UNCHANGED users
                ELSE PutUser(current.id, row)
                     /\ Step(p, [pc |-> "done", result |-> "OK", user |-> row])
        ELSE IF PhoneConflict(phone, NoId)
        THEN Throw(p) /\ UNCHANGED users
        ELSE /\ UserIds \ DOMAIN users # {}
             /\ LET id == CHOOSE i \in UserIds \ DOMAIN users : TRUE
                    row == [id |-> id, name |-> name, phone |-> phone,
                            is_admin |-> computeAdminFlag(name, phone, FALSE)]
                IN PutUser(id, row)
                   /\ Step(p, [pc |-> "done", result |-> "OK", user |-> row])
  /\ UNCHANGED <<weeks, parts, locks, events, nreq>>

\* ----------------------------------------------------- POST /api/profile
\* reqs: [caller, pname, pphone]
StartProfile(p, reqs) ==
  \E r \in reqs :
    /\ Accept(p, [kind |-> "profile", pc |-> "profRead"] @@ r)
    /\ UNCHANGED <<users, weeks, parts, locks, events>>

\* Where a handler goes once it holds its user row.
AfterUser(p) ==
  CASE h[p].kind = "profile" -> "done"
    [] h[p].kind = "claim" -> "lock"
    [] h[p].kind = "release" -> "lock"
    [] h[p].kind = "reset" -> "adminCheck"
    [] OTHER -> "adminUpdate"

\* if (profile.name || profile.phone)
HasHint(p) == ~Falsy(h[p].pname) \/ ~Falsy(h[p].pphone)

\* The user taken from the session payload instead of the store.
GetUserFromSession(p) ==
  /\ At(p, {"claim", "release", "reset", "setAdmin"}, "getUser")
  /\ Step(p, [user |-> [id |-> h[p].caller, name |-> NULL, phone |-> NULL,
                         is_admin |-> h[p].tokenAdmin],
              pc |-> IF h[p].kind \in {"claim", "reset"} /\ HasHint(p)
                     THEN "profRead" ELSE AfterUser(p)])
  /\ UNCHANGED <<users, weeks, parts, locks, events, nreq>>

\* getUserById(session.session.userId) of the claim, release, reset and
\* admin routes
GetUser(p) ==
  /\ At(p, {"claim", "release", "reset", "setAdmin"}, "getUser")
  /\ LET u == UserById(h[p].caller) IN
     IF u = NoUser THEN Throw(p)
     ELSE Step(p, [user |-> u,
                   pc |-> IF h[p].kind \in {"claim", "reset"} /\ HasHint(p)
                          THEN "profRead" ELSE AfterUser(p)])
  /\ UNCHANGED <<users, weeks, parts, locks, events, nreq>>

\* updateUserProfile: existing = await getUserById(userId)
ProfileRead(p) ==
  /\ At(p, {"profile", "claim", "reset"}, "profRead")
  /\ LET u == UserById(h[p].caller) IN
     IF u = NoUser THEN Throw(p)
     ELSE Step(p, [existing |-> u, pc |-> "profWrite"])
  /\ UNCHANGED <<users, weeks, parts, locks, events, nreq>>

\* updateUserProfile: update users set name, phone, is_admin where id=$1
ProfileWrite(p) ==
  /\ At(p, {"profile", "claim", "reset"}, "profWrite")
  /\ LET existing == h[p].existing
         name == OrElse(OptTrim(h[p].pname), existing.name)
         phone == normalizePhone(OrElse(h[p].pphone, existing.phone))
         row == [id |-> existing.id, name |-> name, phone |-> phone,
                 is_admin |-> computeAdminFlag(name, phone, existing.is_admin)]
     IN IF PhoneConflict(phone, existing.id)
        THEN Throw(p) /\ UNCHANGED users
        ELSE PutUser(existing.id, row)
             /\ Step(p, [user |-> row, pc |-> AfterUser(p),
                         result |-> IF h[p].kind = "profile" THEN "OK" ELSE ""])
  /\ UNCHANGED <<weeks, parts, locks, events, nreq>>

\* ------------------------------------------------ GET /api/weeks/:weekKey
\* reqs: [weekKey]
StartResolve(p, reqs) ==
  \E r \in reqs :
    /\ Accept(p, [kind |-> "resolve", pc |-> "weekSelect"] @@ r)
    /\ UNCHANGED <<users, weeks, parts, locks, events>>

\* Where a transaction goes once it holds its week id.
AfterWeek(p) == IF h[p].kind = "reset" THEN "bulkClear" ELSE "commit"

\* The week inserted without being looked up first.
WeekSelectNoLookup(p) ==
  /\ At(p, {"resolve", "reset"}, "weekSelect")
  /\ Step(p, [pc |-> "weekInsert"])
  /\ UNCHANGED <<users, weeks, parts, locks, events, nreq>>

\* getWeek: select id, week_key from weeks where week_key=$1
WeekSelect(p) ==
  /\ At(p, {"resolve", "reset"}, "weekSelect")
  /\ LET w == WeekByKey(h[p].weekKey) IN
     IF w # NoId THEN Step(p, [wk |-> w, pc |-> AfterWeek(p)])
     ELSE Step(p, [pc |-> "ensureSelect"])
  /\ UNCHANGED <<users, weeks, parts, locks, events, nreq>>

\* ensureWeek: select id from weeks where week_key=$1
EnsureSelect(p) ==
  /\ At(p, {"resolve", "reset"}, "ensureSelect")
  /\ LET w == WeekByKey(h[p].weekKey) IN
     IF w # NoId THEN Step(p, [wk |-> w, pc |-> AfterWeek(p)])
     ELSE Step(p, [pc |-> "weekInsert"])
  /\ UNCHANGED <<users, weeks, parts, locks, events, nreq>>

\* Week ids no committed or uncommitted row uses.
FreeWeekIds == (WeekIds \ DOMAIN weeks) \ {h[q].newWeek : q \in DOMAIN h}

\* ensureWeek: insert into weeks (week_key) values ($1) returning id.
\* The insert waits for an uncommitted insert of the same key and fails
\* on a committed one.
WeekInsert(p) ==
  /\ At(p, {"resolve", "reset"}, "weekInsert")
  /\ \A q \in DOMAIN h \ {p} : ~(h[q].newWeek # NoId /\ h[q].weekKey = h[p].weekKey)
  /\ IF WeekKeyConflict(h[p].weekKey) THEN Throw(p)
     ELSE /\ FreeWeekIds # {}
          /\ LET id == CHOOSE i \in FreeWeekIds : TRUE IN
             Step(p, [newWeek |-> id, wk |-> id, pc |-> "partsInsert"])
  /\ UNCHANGED <<users, weeks, parts, locks, events, nreq>>

\* ensureWeek: insert into parts .. generate_series(1,30)
PartsInsert(p) ==
  /\ At(p, {"resolve", "reset"}, "partsInsert")
  /\ Step(p, [newParts |-> TRUE, pc |-> AfterWeek(p)])
  /\ UNCHANGED <<users, weeks, parts, locks, events, nreq>>

\* The tables once the transaction of handler r commits: its inserted week
\* and parts, then its update.
CommittedWeeks(r) ==
  IF r.newWeek = NoId THEN weeks
  ELSE [w \in DOMAIN weeks \cup {r.newWeek} |->
          IF w = r.newWeek THEN r.weekKey ELSE weeks[w]]

\* The parts insert run outside the week's transaction: the week commits
\* with no parts.
InsertedPartsLater(r) ==
  IF r.newWeek = NoId THEN parts
  ELSE [w \in DOMAIN parts \cup {r.newWeek} |-> IF w = r.newWeek THEN <<>> ELSE parts[w]]

InsertedParts(r) ==
  IF r.newWeek = NoId THEN parts
  ELSE [w \in DOMAIN parts \cup {r.newWeek} |->
          IF w = r.newWeek THEN (IF r.newParts THEN NewParts ELSE <<>>) ELSE parts[w]]

\* The reset's update without its where clause.
CommittedPartsNoWhere(r) ==
  LET base == InsertedParts(r) IN
  CASE r.tx = "part" -> [base EXCEPT ![r.weekId][r.n] = r.wr]
    [] r.tx = "clear" -> [w \in DOMAIN base |-> [k \in DOMAIN base[w] |-> FreePart]]
    [] OTHER -> base

CommittedParts(r) ==
  LET base == InsertedParts(r) IN
  CASE r.tx = "part" -> [base EXCEPT ![r.weekId][r.n] = r.wr]
    [] r.tx = "clear" -> [base EXCEPT ![r.wk] = [k \in DOMAIN base[r.wk] |-> FreePart]]
    [] OTHER -> base

\* COMMIT that leaves the transaction's row locks behind.
CommitKeepsLocks(p) ==
  /\ At(p, TxKinds, "commit")
  /\ weeks' = CommittedWeeks(h[p])
  /\ parts' = CommittedParts(h[p])
  /\ Step(p, [committed |-> TRUE, newWeek |-> NoId, newParts |-> FALSE, tx |-> "none",
              pc |-> IF h[p].kind \in {"claim", "release"} THEN "publish" ELSE "fetch"])
  /\ UNCHANGED <<users, locks, events, nreq>>

\* COMMIT
Commit(p) ==
  /\ At(p, TxKinds, "commit")
  /\ weeks' = CommittedWeeks(h[p])
  /\ parts' = CommittedParts(h[p])
  /\ locks' = locks \ LocksOf(p)
  /\ Step(p, [committed |-> TRUE, newWeek |-> NoId, newParts |-> FALSE, tx |-> "none",
              pc |-> IF h[p].kind \in {"claim", "release"} THEN "publish" ELSE "fetch"])
  /\ UNCHANGED <<users, events, nreq>>

\* The broadcast moved to a finally block: the failure paths publish too.
RollbackThenBroadcast(p) ==
  /\ At(p, TxKinds, "rollback")
  /\ locks' = locks \ LocksOf(p)
  /\ Emit([type |-> "part:update", room |-> h[p].weekId, by |-> h[p].id,
           afterCommit |-> h[p].committed])
  /\ Step(p, [newWeek |-> NoId, newParts |-> FALSE, tx |-> "none",
              emitted |-> h[p].emitted + 1, pc |-> "done", result |-> h[p].err])
  /\ UNCHANGED <<users, weeks, parts, nreq>>

\* The error response without the ROLLBACK.
RollbackKeepsLocks(p) ==
  /\ At(p, TxKinds, "rollback")
  /\ Step(p, [newWeek |-> NoId, newParts |-> FALSE, tx |-> "none",
              pc |-> "done", result |-> h[p].err])
  /\ UNCHANGED <<users, weeks, parts, locks, events, nreq>>

\* ROLLBACK, then the error response
Rollback(p) ==
  /\ At(p, TxKinds, "rollback")
  /\ locks' = locks \ LocksOf(p)
  /\ Step(p, [newWeek |-> NoId, newParts |-> FALSE, tx |-> "none",
              pc |-> "done", result |-> h[p].err])
  /\ UNCHANGED <<users, weeks, parts, events, nreq>>

\* fetchParts after COMMIT, then the answer; reset emits week:reset first.
Fetch(p) ==
  /\ At(p, {"resolve", "reset"}, "fetch")
  /\ LET fresh == fetchParts(h[p].wk) IN
     /\ Step(p, [snap |-> fresh, pc |-> "done", result |-> "OK",
                 emitted |-> IF h[p].kind = "reset" THEN h[p].emitted + 1 ELSE h[p].emitted])
     /\ IF h[p].kind = "reset"
        THEN Emit([type |-> "week:reset", room |-> h[p].wk, by |-> h[p].id,
                   afterCommit |-> h[p].committed, parts |-> fresh])
        ELSE UNCHANGED events
  /\ UNCHANGED <<users, weeks, parts, locks, nreq>>

\* ------------------------- POST /api/weeks/:weekId/parts/:number/claim
\* reqs: [caller, weekId, n, pname, pphone]
StartClaim(p, reqs) ==
  \E r \in reqs :
    /\ Accept(p, [kind |-> "claim",
                          pc |-> IF r.n = NaN THEN "done" ELSE "getUser",
                          result |-> IF r.n = NaN THEN "BAD_REQUEST" ELSE ""] @@ r)
    /\ UNCHANGED <<users, weeks, parts, locks, events>>

\* ----------------------- POST /api/weeks/:weekId/parts/:number/release
\* reqs: [caller, weekId, n]
StartRelease(p, reqs) ==
  \E r \in reqs :
    /\ Accept(p, [kind |-> "release",
                          pc |-> IF r.n = NaN THEN "done" ELSE "getUser",
                          result |-> IF r.n = NaN THEN "BAD_REQUEST" ELSE ""] @@ r)
    /\ UNCHANGED <<users, weeks, parts, locks, events>>

\* The missing row thrown to the catch block instead of answered.
PartNotFoundAsFailure(kind) == Failure(kind)

\* if (!existing.rowCount): ROLLBACK, then 404 PART_NOT_FOUND
PartNotFound(kind) == "PART_NOT_FOUND"

\* if (existing.rows[0].claimed_by): the claim is refused
ClaimRefused(claimedBy) == claimedBy # NoId

\* The owner comparison forgotten: only a free part is refused.
NotOwnerOnlyWhenFree(claimedBy, userId) == claimedBy = NoId

\* if (!claimed_by || claimed_by !== user.id): the release is refused
NotOwner(claimedBy, userId) == claimedBy = NoId \/ claimedBy # userId

\* profile.name?.trim() || user.name || null
claimedName(pname, user) ==
  LET x == OrElse(OptTrim(pname), user.name) IN IF Falsy(x) THEN NULL ELSE x

\* now() of the updating transaction: a time no other transaction has.
Now(p) == h[p].id

\* The claim made idempotent: the holder's own claim is not refused and
\* writes the row again.
LockPartHolderReclaims(p) ==
  /\ At(p, {"claim", "release"}, "lock")
  /\ LET w == h[p].weekId
         n == h[p].n
     IN IF ~PartExists(w, n)
        THEN Step(p, [found |-> FALSE, pc |-> "rollback", err |-> PartNotFound(h[p].kind)])
             /\ UNCHANGED locks
        ELSE /\ LockFree(w, n, p)
             /\ locks' = locks \cup {<<w, n, p>>}
             /\ LET claimedBy == parts[w][n].claimed_by IN
                IF h[p].kind = "claim"
                THEN IF ClaimRefused(claimedBy) /\ claimedBy # h[p].user.id
                     THEN Step(p, [found |-> TRUE, seen |-> claimedBy, pc |-> "rollback",
                                   err |-> "ALREADY_CLAIMED"])
                     ELSE Step(p, [found |-> TRUE, seen |-> claimedBy, pc |-> "commit",
                                   tx |-> "part",
                                   wr |-> [claimed_by |-> h[p].user.id,
                                           claimed_name |-> claimedName(h[p].pname, h[p].user),
                                           claimed_at |-> Now(p)]])
                ELSE IF NotOwner(claimedBy, h[p].user.id)
                     THEN Step(p, [found |-> TRUE, seen |-> claimedBy, pc |-> "rollback",
                                   err |-> "NOT_OWNER"])
                     ELSE Step(p, [found |-> TRUE, seen |-> claimedBy, pc |-> "commit",
                                   tx |-> "part", wr |-> FreePart])
  /\ UNCHANGED <<users, weeks, parts, events, nreq>>

\* BEGIN; select claimed_by .. for update; then the update of the row, or
\* the refusal.  The update is private until COMMIT.
LockPart(p) ==
  /\ At(p, {"claim", "release"}, "lock")
  /\ LET w == h[p].weekId
         n == h[p].n
     IN IF ~PartExists(w, n)
        THEN Step(p, [found |-> FALSE, pc |-> "rollback", err |-> PartNotFound(h[p].kind)])
             /\ UNCHANGED locks
        ELSE /\ LockFree(w, n, p)
             /\ locks' = locks \cup {<<w, n, p>>}
             /\ LET claimedBy == parts[w][n].claimed_by IN
                IF h[p].kind = "claim"
                THEN IF ClaimRefused(claimedBy)
                     THEN Step(p, [found |-> TRUE, seen |-> claimedBy, pc |-> "rollback",
                                   err |-> "ALREADY_CLAIMED"])
                     ELSE Step(p, [found |-> TRUE, seen |-> claimedBy, pc |-> "commit",
                                   tx |-> "part",
                                   wr |-> [claimed_by |-> h[p].user.id,
                                           claimed_name |-> claimedName(h[p].pname, h[p].user),
                                           claimed_at |-> Now(p)]])
                ELSE IF NotOwner(claimedBy, h[p].user.id)
                     THEN Step(p, [found |-> TRUE, seen |-> claimedBy, pc |-> "rollback",
                                   err |-> "NOT_OWNER"])
                     ELSE Step(p, [found |-> TRUE, seen |-> claimedBy, pc |-> "commit",
                                   tx |-> "part", wr |-> FreePart])
  /\ UNCHANGED <<users, weeks, parts, events, nreq>>

\* The payload built from the row read under the lock.
PayloadOfExisting(r) ==
  [number |-> r.n, claimed_by |-> r.seen,
   claimed_name |-> IF r.kind = "claim" THEN r.wr.claimed_name ELSE NULL,
   claimed_is_admin |-> IF r.kind = "claim" THEN AdminText(r.user.is_admin) ELSE "null"]

\* The PartRow a claim or a release answers and broadcasts.
Payload(r) ==
  IF r.kind = "claim"
  THEN [number |-> r.n, claimed_by |-> r.user.id, claimed_name |-> r.wr.claimed_name,
        claimed_is_admin |-> AdminText(r.user.is_admin)]
  ELSE [number |-> r.n, claimed_by |-> NoId, claimed_name |-> NULL,
        claimed_is_admin |-> "null"]

\* broadcastPartUpdate(weekId, payload); res.json(payload)
Publish(p) ==
  /\ At(p, {"claim", "release"}, "publish")
  /\ Emit([type |-> "part:update", room |-> h[p].weekId, by |-> h[p].id,
           afterCommit |-> h[p].committed, part |-> Payload(h[p])])
  /\ Step(p, [resp |-> Payload(h[p]), emitted |-> h[p].emitted + 1,
              pc |-> "done", result |-> "OK"])
  /\ UNCHANGED <<users, weeks, parts, locks, nreq>>

\* ------------------------------------- POST /api/weeks/:weekKey/reset
\* reqs: [caller, weekKey, pname, pphone]
StartReset(p, reqs) ==
  \E r \in reqs :
    /\ Accept(p, [kind |-> "reset", pc |-> "getUser"] @@ r)
    /\ UNCHANGED <<users, weeks, parts, locks, events>>

\* The admin check dropped.
NotAdminUnchecked(user) == FALSE

\* if (!user.is_admin)
NotAdmin(user) == ~user.is_admin

\* BEGIN; the admin check on the user row read before it
AdminCheck(p) ==
  /\ At(p, {"reset"}, "adminCheck")
  /\ IF NotAdmin(h[p].user)
     THEN Step(p, [pc |-> "rollback", err |-> "NOT_ADMIN"])
     ELSE Step(p, [pc |-> "weekSelect"])
  /\ UNCHANGED <<users, weeks, parts, locks, events, nreq>>

\* The bulk update skipping the rows another transaction holds
\* (SKIP LOCKED) instead of waiting for them.
BulkClearSkipLocked(p) ==
  /\ At(p, {"reset"}, "bulkClear")
  /\ LET w == h[p].wk
         rows == IF w \in DOMAIN parts THEN DOMAIN parts[w] ELSE {}
     IN locks' = locks \cup {<<w, n, p>> : n \in {k \in rows : LockFree(w, k, p)}}
  /\ Step(p, [tx |-> "clear", pc |-> "commit"])
  /\ UNCHANGED <<users, weeks, parts, events, nreq>>

\* update parts set claimed_by=null, .. where week_id=$1: locks every row
\* of the week, waiting for the transactions that hold one.
BulkClear(p) ==
  /\ At(p, {"reset"}, "bulkClear")
  /\ LET w == h[p].wk
         rows == IF w \in DOMAIN parts THEN DOMAIN parts[w] ELSE {}
     IN /\ \A n \in rows : LockFree(w, n, p)
        /\ locks' = locks \cup {<<w, n, p>> : n \in rows}
  /\ Step(p, [tx |-> "clear", pc |-> "commit"])
  /\ UNCHANGED <<users, weeks, parts, events, nreq>>

\* ------------------------------------- PATCH /api/users/:userId/admin
\* reqs: [caller, target, mk, weekId, n]
StartSetAdmin(p, reqs) ==
  \E r \in reqs :
    /\ Accept(p, [kind |-> "setAdmin",
                          pc |-> IF r.mk = "none" THEN "done" ELSE "getUser",
                          result |-> IF r.mk = "none" THEN "INVALID_BODY" ELSE ""] @@ r)
    /\ UNCHANGED <<users, weeks, parts, locks, events>>

\* The update written as a grant only: is_admin = is_admin or $2.
AdminUpdateGrantOnly(p) ==
  /\ At(p, {"setAdmin"}, "adminUpdate")
  /\ IF NotAdmin(h[p].user)
     THEN Step(p, [pc |-> "done", result |-> "NOT_ADMIN"]) /\ UNCHANGED users
     ELSE IF h[p].target \notin DOMAIN users
     THEN Step(p, [pc |-> "done", result |-> "USER_NOT_FOUND"]) /\ UNCHANGED users
     ELSE /\ users' = [users EXCEPT ![h[p].target].is_admin = (@ \/ h[p].mk = "true")]
          /\ IF h[p].weekId # NoId /\ h[p].n # NaN
             THEN Step(p, [committed |-> TRUE, pc |-> "partRead"])
             ELSE Step(p, [committed |-> TRUE, pc |-> "done", result |-> "OK"])
  /\ UNCHANGED <<weeks, parts, locks, events, nreq>>

\* The actor check, then update users set is_admin=$2 where id=$1
AdminUpdate(p) ==
  /\ At(p, {"setAdmin"}, "adminUpdate")
  /\ IF NotAdmin(h[p].user)
     THEN Step(p, [pc |-> "done", result |-> "NOT_ADMIN"]) /\ UNCHANGED users
     ELSE IF h[p].target \notin DOMAIN users
     THEN Step(p, [pc |-> "done", result |-> "USER_NOT_FOUND"]) /\ UNCHANGED users
     ELSE /\ users' = [users EXCEPT ![h[p].target].is_admin = (h[p].mk = "true")]
          /\ IF h[p].weekId # NoId /\ h[p].n # NaN
             THEN Step(p, [committed |-> TRUE, pc |-> "partRead"])
             ELSE Step(p, [committed |-> TRUE, pc |-> "done", result |-> "OK"])
  /\ UNCHANGED <<weeks, parts, locks, events, nreq>>

\* The part read of the admin route and its broadcast
PartRead(p) ==
  /\ At(p, {"setAdmin"}, "partRead")
  /\ IF PartExists(h[p].weekId, h[p].n)
     THEN /\ Emit([type |-> "part:update", room |-> h[p].weekId, by |-> h[p].id,
                   afterCommit |-> h[p].committed,
                   part |-> PartRowOf(h[p].weekId, h[p].n)])
          /\ Step(p, [emitted |-> h[p].emitted + 1, pc |-> "done", result |-> "OK"])
     ELSE UNCHANGED events /\ Step(p, [pc |-> "done", result |-> "OK"])
  /\ UNCHANGED <<users, weeks, parts, locks, nreq>>

\* ------------------------------------------------------- specification
\* The store after two logins (an admin by phone, a named participant) and
\* one load of week K1.
InitUsers ==
  [i \in {"u1", "u2"} |->
     IF i = "u1"
     THEN [name |-> DEFAULT_ADMIN_NAME, phone |-> <<"+", "9">>, is_admin |-> TRUE]
     ELSE [name |-> <<"a">>, phone |-> <<"+", "1">>, is_admin |-> FALSE]]

InitStore ==
  /\ users = InitUsers
  /\ weeks = [w \in {"w1"} |-> "K1"]
  /\ parts = [w \in {"w1"} |-> NewParts]
  /\ locks = {}
  /\ events = <<>>

Init ==
  /\ InitStore
  /\ h = [p \in Procs |-> Idle]
  /\ nreq = 0

\* What the callers of the general specification send.  u3 has no users
\* row until a login creates it; part 31 and week key K2 do not exist.
LoginReqs ==
  {[pname |-> <<" ">>, pphone |-> <<"3">>],
   [pname |-> <<" ">>, pphone |-> <<" ", "1">>]}
ProfileReqs ==
  {[caller |-> "u2", pname |-> <<"b", " ">>, pphone |-> NULL]}
ResolveReqs == {[weekKey |-> k] : k \in WeekKeys}
ClaimReqs ==
  {[caller |-> c, weekId |-> "w1", n |-> n, pname |-> NULL, pphone |-> NULL] :
     c \in {"u2", "u3"}, n \in {1, 31}}
  \cup {[caller |-> "u2", weekId |-> "w1", n |-> NaN, pname |-> NULL, pphone |-> NULL]}
ReleaseReqs ==
  {[caller |-> c, weekId |-> "w1", n |-> n] : c \in {"u1", "u2"}, n \in {1, 31}}
ResetReqs ==
  {[caller |-> c, weekKey |-> k, pname |-> NULL, pphone |-> NULL] :
     c \in {"u1", "u2"}, k \in WeekKeys}
  \cup {[caller |-> "u2", weekKey |-> "K1", pname |-> <<"b">>, pphone |-> NULL]}
SetAdminReqs ==
  {[caller |-> "u1", target |-> "u1", mk |-> "false", weekId |-> NoId, n |-> NaN],
   [caller |-> "u1", target |-> "u2", mk |-> "true", weekId |-> "w1", n |-> 1],
   [caller |-> "u2", target |-> "u1", mk |-> "false", weekId |-> NoId, n |-> NaN],
   [caller |-> "u1", target |-> "u4", mk |-> "true", weekId |-> NoId, n |-> NaN],
   [caller |-> "u1", target |-> "u2", mk |-> "none", weekId |-> NoId, n |-> NaN]}

Next ==
  \/ \E p \in DOMAIN h : StartLogin(p, LoginReqs)
  \/ \E p \in DOMAIN h : LoginSelect(p)
  \/ \E p \in DOMAIN h : LoginWrite(p)
  \/ \E p \in DOMAIN h : StartProfile(p, ProfileReqs)
  \/ \E p \in DOMAIN h : GetUser(p)
  \/ \E p \in DOMAIN h : ProfileRead(p)
  \/ \E p \in DOMAIN h : ProfileWrite(p)
  \/ \E p \in DOMAIN h : StartResolve(p, ResolveReqs)
  \/ \E p \in DOMAIN h : WeekSelect(p)
  \/ \E p \in DOMAIN h : EnsureSelect(p)
  \/ \E p \in DOMAIN h : WeekInsert(p)
  \/ \E p \in DOMAIN h : PartsInsert(p)
  \/ \E p \in DOMAIN h : Commit(p)
  \/ \E p \in DOMAIN h : Rollback(p)
  \/ \E p \in DOMAIN h : Fetch(p)
  \/ \E p \in DOMAIN h : StartClaim(p, ClaimReqs)
  \/ \E p \in DOMAIN h : StartRelease(p, ReleaseReqs)
  \/ \E p \in DOMAIN h : LockPart(p)
  \/ \E p \in DOMAIN h : Publish(p)
  \/ \E p \in DOMAIN h : StartReset(p, ResetReqs)
  \/ \E p \in DOMAIN h : AdminCheck(p)
  \/ \E p \in DOMAIN h : BulkClear(p)
  \/ \E p \in DOMAIN h : StartSetAdmin(p, SetAdminReqs)
  \/ \E p \in DOMAIN h : AdminUpdate(p)
  \/ \E p \in DOMAIN h : PartRead(p)

Spec == Init /\ [][Next]_vars

\* ------------------------------------------------- the claim race
\* The store after four logins and one load of week K1; u4 logged in with
\* a blank name.
RaceUsers ==
  [i \in UserIds |->
     CASE i = "u1" -> [name |-> DEFAULT_ADMIN_NAME, phone |-> <<"+", "9">>, is_admin |-> TRUE]
       [] i = "u2" -> [name |-> <<"a">>, phone |-> <<"+", "1">>, is_admin |-> FALSE]
       [] i = "u3" -> [name |-> <<"c">>, phone |-> <<"+", "2">>, is_admin |-> FALSE]
       [] OTHER -> [name |-> NULL, phone |-> <<"+", "3">>, is_admin |-> FALSE]]

RaceStore ==
  /\ users = RaceUsers
  /\ weeks = [w \in {"w1"} |-> "K1"]
  /\ parts = [w \in {"w1"} |-> NewParts]
  /\ locks = {}
  /\ events = <<>>

\* The caller of each racing request: all distinct.
RacerCaller == <<"u1", "u2", "u3", "u4">>

\* N claim requests on one free part of week w1, all accepted and none
\* yet past its first statement; each may carry a name override.
InitClaimRace ==
  /\ RaceStore
  /\ \E N \in 1..MaxRacers, n \in {1, NumParts} :
       \E hint \in [1..N -> {NULL, <<"b", " ">>}] :
         h = [i \in 1..N |->
                [kind |-> "claim", pc |-> "getUser", id |-> i, caller |-> RacerCaller[i],
                 weekId |-> "w1", n |-> n, pname |-> hint[i]] @@ Idle]
  /\ nreq = Cardinality(DOMAIN h)

NextClaimRace ==
  \/ \E p \in DOMAIN h : GetUser(p)
  \/ \E p \in DOMAIN h : ProfileRead(p)
  \/ \E p \in DOMAIN h : ProfileWrite(p)
  \/ \E p \in DOMAIN h : LockPart(p)
  \/ \E p \in DOMAIN h : Commit(p)
  \/ \E p \in DOMAIN h : Rollback(p)
  \/ \E p \in DOMAIN h : Publish(p)

SpecClaimRace == InitClaimRace /\ [][NextClaimRace]_vars

Winners == {p \in DOMAIN h : h[p].result = "OK"}
AllDone == \A p \in DOMAIN h : h[p].pc = "done"
RacedPart == parts["w1"][h[1].n]

\* C1: of N concurrent claims by distinct callers on one free part, under
\* every interleaving, never more than one commits or succeeds, every
\* request that has answered answered OK or ALREADY_CLAIMED, no request
\* waits for ever, and once all have answered exactly one succeeded and the
\* part is claimed by its caller.
C1_ExactlyOneClaimWins ==
  /\ Cardinality(Winners) <= 1
  /\ Cardinality({p \in DOMAIN h : h[p].committed}) <= 1
  /\ \A p \in DOMAIN h : h[p].pc = "done" => h[p].result \in {"OK", "ALREADY_CLAIMED"}
  /\ \A p \in Winners : RacedPart.claimed_by = h[p].caller
  /\ AllDone \/ ENABLED NextClaimRace
  /\ AllDone => /\ Cardinality(Winners) = 1
                /\ \A p \in DOMAIN h \ Winners : h[p].result = "ALREADY_CLAIMED"

\* Three racers have all answered: one won, two were refused.
C1_Witness ==
  /\ AllDone
  /\ Cardinality(DOMAIN h) = 3
  /\ Cardinality({p \in DOMAIN h : h[p].result = "ALREADY_CLAIMED"}) = 2

\* ------------------------------------------- release, then claim
\* Week w1 with one part claimed (by an earlier claim of its owner), one
\* release request on that part accepted, and a second context idle.
InitReleaseThenClaim ==
  /\ users = RaceUsers
  /\ weeks = [w \in {"w1"} |-> "K1"]
  /\ locks = {}
  /\ events = <<>>
  /\ nreq = 1
  /\ \E n \in {1, NumParts}, owner \in UserIds, releaser \in UserIds :
       /\ parts = [w \in {"w1"} |->
                     [NewParts EXCEPT ![n] =
                        [claimed_by |-> owner,
                         claimed_name |-> claimedName(NULL, UserRow(owner, RaceUsers[owner])),
                         claimed_at |-> 1]]]
       /\ h = [i \in 1..2 |->
                 IF i = 1
                 THEN [kind |-> "release", pc |-> "getUser", id |-> 1, caller |-> releaser,
                       weekId |-> "w1", n |-> n] @@ Idle
                 ELSE Idle]

\* The claims another caller may send for the released part.
ClaimsAfterRelease ==
  {[caller |-> c, weekId |-> "w1", n |-> h[1].n, pname |-> x, pphone |-> NULL] :
     c \in UserIds \ {h[1].caller}, x \in {NULL, <<"b", " ">>}}

\* A claim is sent only once the release has answered OK.
NextReleaseThenClaim ==
  \/ \E p \in DOMAIN h : GetUser(p)
  \/ \E p \in DOMAIN h : ProfileRead(p)
  \/ \E p \in DOMAIN h : ProfileWrite(p)
  \/ \E p \in DOMAIN h : LockPart(p)
  \/ \E p \in DOMAIN h : Commit(p)
  \/ \E p \in DOMAIN h : Rollback(p)
  \/ \E p \in DOMAIN h : Publish(p)
  \/ (h[1].pc = "done" /\ h[1].result = "OK" /\ StartClaim(2, ClaimsAfterRelease))

SpecReleaseThenClaim == InitReleaseThenClaim /\ [][NextReleaseThenClaim]_vars

\* C4: once a release by the owner has answered OK it holds no lock and,
\* until the next request, the part is free and unlocked; the claim of that
\* part by another user that starts next is never made to wait at its
\* lock, is never refused, and commits the part to its caller.
C4_ClaimAfterReleaseSucceeds ==
  /\ (h[1].pc = "done" /\ h[1].result = "OK")
       => /\ LocksOf(1) = {}
          /\ nreq = 1 => (/\ parts["w1"][h[1].n] = FreePart
                          /\ \A l \in locks : ~(l[1] = "w1" /\ l[2] = h[1].n))
  /\ \A p \in DOMAIN h :
       (h[p].kind = "claim" /\ h[p].id = 2) =>
         /\ h[p].pc # "rollback"
         /\ h[p].pc = "lock" => LockFree(h[p].weekId, h[p].n, p)
         /\ h[p].pc = "done" => h[p].result = "OK"
         /\ h[p].committed => parts["w1"][h[p].n].claimed_by = h[p].caller

\* The claim that followed the owner's release has answered OK.
C4_Witness ==
  \E p \in DOMAIN h :
    /\ h[p].kind = "claim" /\ h[p].id = 2 /\ h[p].pc = "done" /\ h[p].result = "OK"
    /\ h[1].seen = h[1].caller
    /\ h[p].caller # h[1].caller

\* ------------------------------------------- events of one part
\* Week w1 with one part claimed by its owner; the owner's release and the
\* claims of two other users are accepted together, none past its first
\* statement.
InitPartEvents ==
  /\ users = RaceUsers
  /\ weeks = [w \in {"w1"} |-> "K1"]
  /\ locks = {}
  /\ events = <<>>
  /\ nreq = 3
  /\ \E n \in {1, NumParts}, owner \in {"u1", "u2"} :
       /\ parts = [w \in {"w1"} |->
                     [NewParts EXCEPT ![n] =
                        [claimed_by |-> owner,
                         claimed_name |-> claimedName(NULL, UserRow(owner, RaceUsers[owner])),
                         claimed_at |-> 1]]]
       /\ h = [i \in 1..3 |->
                 IF i = 1
                 THEN [kind |-> "release", pc |-> "getUser", id |-> 1, caller |-> owner,
                       weekId |-> "w1", n |-> n] @@ Idle
                 ELSE [kind |-> "claim", pc |-> "getUser", id |-> i,
                       caller |-> RacerCaller[i + 1], weekId |-> "w1", n |-> n] @@ Idle]

NextPartEvents ==
  \/ \E p \in DOMAIN h : GetUser(p)
  \/ \E p \in DOMAIN h : LockPart(p)
  \/ \E p \in DOMAIN h : Commit(p)
  \/ \E p \in DOMAIN h : Rollback(p)
  \/ \E p \in DOMAIN h : Publish(p)

SpecPartEvents == InitPartEvents /\ [][NextPartEvents]_vars

\* C11: the part-update events of one part are published in the order in
\* which their operations committed.  Here the part starts claimed, so the
\* release commits before any claim can, and the release's event (the part
\* free) must never follow a claim's event (the part claimed).
C11_PartEventsInCommitOrder ==
  \A i, j \in 1..Len(events) :
    (/\ i < j
     /\ events[i].room = events[j].room
     /\ events[i].part.number = events[j].part.number)
    => ~(events[i].part.claimed_by # NoId /\ events[j].part.claimed_by = NoId)

\* ------------------------------------------------- the Board's load
\* socket.on("part:update") and socket.on("week:reset") of the Board: a
\* part:update replaces the entry with the same number, a week:reset for
\* the loaded week replaces the list.
ApplyEvent(view, e, weekId) ==
  CASE e.type = "part:update" ->
         [k \in DOMAIN view |-> IF view[k].number = e.part.number THEN e.part ELSE view[k]]
    [] e.type = "week:reset" /\ e.room = weekId -> e.parts
    [] OTHER -> view

RECURSIVE ApplyEvents(_, _, _)
ApplyEvents(view, es, weekId) ==
  IF es = <<>> THEN view
  ELSE ApplyEvents(ApplyEvent(view, Head(es), weekId), Tail(es), weekId)

\* io.emit: every connected socket, whatever its rooms.
DeliveredToAll(es, room) == es

\* io.to(room).emit reaches the sockets that are in the room.
Delivered(es, room) == SelectSeq(es, LAMBDA e : e.room = room)

\* What a Board shows that loaded the snapshot snap of week weekId and whose
\* socket entered the room when `missed` events had been published.
BoardView(snap, weekId, missed) ==
  ApplyEvents(snap, Delivered(SubSeq(events, missed + 1, Len(events)), weekId), weekId)

\* Board load after the snapshot answer: socket.emit("join-week", weekId),
\* handled by the server's join-week listener.
JoinWeek(p) ==
  /\ At(p, {"resolve"}, "done")
  /\ h[p].result = "OK"
  /\ h[p].wk # NoId
  /\ ~h[p].joined
  /\ Step(p, [joined |-> TRUE, missed |-> Len(events)])
  /\ UNCHANGED <<users, weeks, parts, locks, events, nreq>>

\* A Board loading week K1 while two users claim parts of it.
InitBoardLoad ==
  /\ RaceStore
  /\ nreq = 3
  /\ \E n2, n3 \in {1, NumParts} :
       h = [i \in 1..3 |->
              IF i = 1
              THEN [kind |-> "resolve", pc |-> "weekSelect", id |-> 1, weekKey |-> "K1"] @@ Idle
              ELSE [kind |-> "claim", pc |-> "getUser", id |-> i, caller |-> RacerCaller[i],
                    weekId |-> "w1", n |-> IF i = 2 THEN n2 ELSE n3] @@ Idle]

NextBoardLoad ==
  \/ \E p \in DOMAIN h : WeekSelect(p)
  \/ \E p \in DOMAIN h : Commit(p)
  \/ \E p \in DOMAIN h : Fetch(p)
  \/ \E p \in DOMAIN h : JoinWeek(p)
  \/ \E p \in DOMAIN h : GetUser(p)
  \/ \E p \in DOMAIN h : LockPart(p)
  \/ \E p \in DOMAIN h : Rollback(p)
  \/ \E p \in DOMAIN h : Publish(p)

SpecBoardLoad == InitBoardLoad /\ [][NextBoardLoad]_vars

\* C12: a Board that has loaded (snapshot fetched, then room joined) has
\* missed no committed mutation: once every request has answered, what it
\* shows for each part is the part's committed claimedBy.
C12_LoadMissesNothing ==
  (/\ h[1].joined
   /\ \A p \in DOMAIN h : h[p].pc = "done")
  => \A n \in DOMAIN parts[h[1].wk] :
       BoardView(h[1].snap, h[1].wk, h[1].missed)[n].claimed_by
         = parts[h[1].wk][n].claimed_by

\* ------------------------------------------- parts that do not exist
\* The (weekId, number) pairs a claim or a release may address: an existing
\* part, a number past the last part, the number 0, and a week id that no
\* week has until week K2 is created.
AddressedParts == {<<"w1", 1>>, <<"w1", NumParts + 1>>, <<"w1", 0>>, <<"w2", 1>>}

\* A claim by u2 and a release by u1, each on one of the pairs, beside a
\* first load of week K2.
InitNoPart ==
  /\ RaceStore
  /\ nreq = 3
  /\ \E a, b \in AddressedParts :
       h = [i \in 1..3 |->
              CASE i = 1 -> [kind |-> "claim", pc |-> "getUser", id |-> 1, caller |-> "u2",
                             weekId |-> a[1], n |-> a[2]] @@ Idle
                [] i = 2 -> [kind |-> "release", pc |-> "getUser", id |-> 2, caller |-> "u1",
                             weekId |-> b[1], n |-> b[2]] @@ Idle
                [] OTHER -> [kind |-> "resolve", pc |-> "weekSelect", id |-> 3,
                             weekKey |-> "K2"] @@ Idle]

NextNoPart ==
  \/ \E p \in DOMAIN h : GetUser(p)
  \/ \E p \in DOMAIN h : LockPart(p)
  \/ \E p \in DOMAIN h : Commit(p)
  \/ \E p \in DOMAIN h : Rollback(p)
  \/ \E p \in DOMAIN h : Publish(p)
  \/ \E p \in DOMAIN h : WeekSelect(p)
  \/ \E p \in DOMAIN h : EnsureSelect(p)
  \/ \E p \in DOMAIN h : WeekInsert(p)
  \/ \E p \in DOMAIN h : PartsInsert(p)
  \/ \E p \in DOMAIN h : Fetch(p)

SpecNoPart == InitNoPart /\ [][NextNoPart]_vars

\* C18: a claim or release (of an existing caller) whose select finds no
\* committed part for its (weekId, number) is rolled back and answers
\* PART_NOT_FOUND; its steps create no week and no part, change no part and
\* emit nothing, and it never commits.
C18_NoPartIsPartNotFound ==
  [][\A p \in DOMAIN h :
       (h[p].kind \in {"claim", "release"} /\ Steps(p)) =>
         /\ (h[p].pc = "lock" /\ ~PartExists(h[p].weekId, h[p].n))
            => /\ h'[p].pc = "rollback" /\ h'[p].err = "PART_NOT_FOUND"
               /\ parts' = parts /\ weeks' = weeks /\ events' = events /\ locks' = locks
         /\ (h[p].pc = "rollback" /\ h[p].err = "PART_NOT_FOUND")
            => /\ h'[p].pc = "done" /\ h'[p].result = "PART_NOT_FOUND"
               /\ ~h'[p].committed /\ h'[p].emitted = 0
               /\ h'[p].newWeek = NoId /\ ~h'[p].newParts
               /\ parts' = parts /\ weeks' = weeks /\ events' = events]_vars

\* A claim on a week id that did not exist and a release on a number past
\* the last part were both answered PART_NOT_FOUND, and the week id still
\* has no parts.
C18_Witness ==
  /\ h[1].pc = "done" /\ h[1].result = "PART_NOT_FOUND" /\ h[1].weekId = "w2"
  /\ h[2].pc = "done" /\ h[2].result = "PART_NOT_FOUND" /\ h[2].n = NumParts + 1
  /\ "w2" \notin DOMAIN parts
  /\ events = <<>>

\* ------------------------------------------------- computeAdminFlag
\* Names and phones computeAdminFlag is applied to: null, empty, the
\* configured values, and near misses.
FlagNames == {NULL, <<>>, <<"M">>, <<"M", " ">>, <<"m">>, <<"a">>}
FlagPhones == {NULL, <<>>, <<"+", "9">>, <<"9">>, <<"+", "1">>}

\* One user u2 with any stored name, phone and flag; a profile update of
\* it and a login, each with any of the bodies, accepted together.
InitAdminFlag ==
  /\ weeks = [w \in {"w1"} |-> "K1"]
  /\ parts = [w \in {"w1"} |-> NewParts]
  /\ locks = {}
  /\ events = <<>>
  /\ nreq = 2
  /\ \E name \in {NULL, <<"a">>, <<"M">>}, phone \in {<<"+", "1">>, <<"+", "9">>},
        flag \in BOOLEAN :
       users = [u \in {"u2"} |-> [name |-> name, phone |-> phone, is_admin |-> flag]]
  /\ \E pn \in FlagNames, pp \in FlagPhones,
        ln \in {<<" ">>, <<"M">>, <<"M", " ">>}, lp \in {<<"1">>, <<" ", "9">>, <<"3">>} :
       h = [i \in 1..2 |->
              IF i = 1
              THEN [kind |-> "profile", pc |-> "profRead", id |-> 1, caller |-> "u2",
                    pname |-> pn, pphone |-> pp] @@ Idle
              ELSE [kind |-> "login", pc |-> "loginSelect", id |-> 2,
                    pname |-> ln, pphone |-> lp] @@ Idle]

NextAdminFlag ==
  \/ \E p \in DOMAIN h : ProfileRead(p)
  \/ \E p \in DOMAIN h : ProfileWrite(p)
  \/ \E p \in DOMAIN h : LoginSelect(p)
  \/ \E p \in DOMAIN h : LoginWrite(p)

SpecAdminFlag == InitAdminFlag /\ [][NextAdminFlag]_vars

\* C19: for every name, phone and current flag computeAdminFlag is true
\* exactly when the current flag is true, or the name is non-empty and is
\* the configured admin name, or the phone is non-empty and is in the
\* configured list; and the flag a profile update or a login has stored and
\* answered is that value for the name and phone it stored and the flag of
\* the row it had read.
C19_AdminFlagIsPolicyOrCurrent ==
  /\ \A name \in FlagNames, phone \in FlagPhones, current \in BOOLEAN :
       computeAdminFlag(name, phone, current)
         <=> \/ current
             \/ (name \notin {NULL, <<>>} /\ name = DEFAULT_ADMIN_NAME)
             \/ (phone \notin {NULL, <<>>} /\ phone \in ADMIN_PHONE_LIST)
  /\ \A p \in DOMAIN h :
       (h[p].kind \in {"profile", "login"} /\ h[p].pc = "done" /\ h[p].result = "OK")
         => (h[p].user.is_admin
               <=> \/ h[p].existing.is_admin
                   \/ (h[p].user.name \notin {NULL, <<>>} /\ h[p].user.name = DEFAULT_ADMIN_NAME)
                   \/ (h[p].user.phone \notin {NULL, <<>>}
                       /\ h[p].user.phone \in ADMIN_PHONE_LIST))

\* A profile update kept the flag of a user whose name and phone match no
\* rule, and a login was made admin by its phone alone.
C19_Witness ==
  /\ h[1].pc = "done" /\ h[1].result = "OK"
  /\ h[1].existing.is_admin /\ h[1].user.is_admin
  /\ h[1].user.name # DEFAULT_ADMIN_NAME /\ h[1].user.phone \notin ADMIN_PHONE_LIST
  /\ h[2].pc = "done" /\ h[2].result = "OK"
  /\ ~h[2].existing.is_admin /\ h[2].user.is_admin
  /\ h[2].user.name # DEFAULT_ADMIN_NAME /\ h[2].user.phone \in ADMIN_PHONE_LIST

\* ------------------------------------------- reset among claims
\* Week w1 with its first and last part claimed by u2 and u3; a reset by
\* the admin u1, a claim by u4 and a release by u2, each of the first or
\* the second part, accepted together.
InitResetRace ==
  /\ users = RaceUsers
  /\ weeks = [w \in {"w1"} |-> "K1"]
  /\ locks = {}
  /\ events = <<>>
  /\ nreq = 3
  /\ parts = [w \in {"w1"} |->
                [n \in 1..NumParts |->
                   CASE n = 1 -> [claimed_by |-> "u2", claimed_name |-> <<"a">>, claimed_at |-> 1]
                     [] n = NumParts ->
                          [claimed_by |-> "u3", claimed_name |-> <<"c">>, claimed_at |-> 1]
                     [] OTHER -> FreePart]]
  /\ \E a, b \in {1, 2} :
       h = [i \in 1..3 |->
              CASE i = 1 -> [kind |-> "reset", pc |-> "getUser", id |-> 1, caller |-> "u1",
                             weekKey |-> "K1"] @@ Idle
                [] i = 2 -> [kind |-> "claim", pc |-> "getUser", id |-> 2, caller |-> "u4",
                             weekId |-> "w1", n |-> a] @@ Idle
                [] OTHER -> [kind |-> "release", pc |-> "getUser", id |-> 3, caller |-> "u2",
                             weekId |-> "w1", n |-> b] @@ Idle]

NextResetRace ==
  \/ \E p \in DOMAIN h : GetUser(p)
  \/ \E p \in DOMAIN h : AdminCheck(p)
  \/ \E p \in DOMAIN h : WeekSelect(p)
  \/ \E p \in DOMAIN h : BulkClear(p)
  \/ \E p \in DOMAIN h : LockPart(p)
  \/ \E p \in DOMAIN h : Commit(p)
  \/ \E p \in DOMAIN h : Rollback(p)
  \/ \E p \in DOMAIN h : Publish(p)
  \/ \E p \in DOMAIN h : Fetch(p)

SpecResetRace == InitResetRace /\ [][NextResetRace]_vars

\* C21: the reset has one commit point: its COMMIT leaves every part of the
\* week free, no other step of it changes a part, and from its bulk update
\* to its COMMIT it holds every row of the week, so that no claim or
\* release changes a part of the week in between; the committed state thus
\* never has some of the earlier claims cleared and others not.
C21_ResetClearsAtOnePoint ==
  [][\A p \in DOMAIN h :
       h[p].kind = "reset" =>
         /\ (Steps(p) /\ h[p].pc = "commit")
            => \A n \in DOMAIN parts'[h[p].wk] : parts'[h[p].wk][n] = FreePart
         /\ (Steps(p) /\ h[p].pc # "commit") => parts' = parts
         /\ h[p].pc = "commit"
            => /\ \A n \in DOMAIN parts[h[p].wk] : <<h[p].wk, n, p>> \in locks
               /\ ~Steps(p) => parts' = parts]_vars

\* The reset has answered with both earlier claims and a concurrent claim
\* (answered OK) cleared, and the release had succeeded before it.
C21_Witness ==
  /\ h[1].pc = "done" /\ h[1].result = "OK"
  /\ h[2].pc = "done" /\ h[2].result = "OK"
  /\ h[3].pc = "done" /\ h[3].result = "OK"
  /\ \A n \in DOMAIN parts["w1"] : parts["w1"][n] = FreePart

\* ------------------------------------------- the admin flag of one user
\* u2 (name "a", phone +1: no policy match) with its flag granted or not;
\* a profile update by u2, a setAdmin on u2 by the admin u1 or by u3, and a
\* login with u2's phone, accepted together.
InitAdminRace ==
  /\ weeks = [w \in {"w1"} |-> "K1"]
  /\ parts = [w \in {"w1"} |-> NewParts]
  /\ locks = {}
  /\ events = <<>>
  /\ nreq = 3
  /\ \E flag \in BOOLEAN : users = [RaceUsers EXCEPT !["u2"].is_admin = flag]
  /\ \E pn \in {<<"b">>, <<"M">>}, actor \in {"u1", "u3"}, mk \in {"true", "false"},
        ln \in {<<" ">>, <<"M">>} :
       h = [i \in 1..3 |->
              CASE i = 1 -> [kind |-> "profile", pc |-> "profRead", id |-> 1, caller |-> "u2",
                             pname |-> pn] @@ Idle
                [] i = 2 -> [kind |-> "setAdmin", pc |-> "getUser", id |-> 2, caller |-> actor,
                             target |-> "u2", mk |-> mk, n |-> NaN] @@ Idle
                [] OTHER -> [kind |-> "login", pc |-> "loginSelect", id |-> 3,
                             pname |-> ln, pphone |-> <<" ", "1">>] @@ Idle]

NextAdminRace ==
  \/ \E p \in DOMAIN h : ProfileRead(p)
  \/ \E p \in DOMAIN h : ProfileWrite(p)
  \/ \E p \in DOMAIN h : GetUser(p)
  \/ \E p \in DOMAIN h : AdminUpdate(p)
  \/ \E p \in DOMAIN h : LoginSelect(p)
  \/ \E p \in DOMAIN h : LoginWrite(p)

SpecAdminRace == InitAdminRace /\ [][NextAdminRace]_vars

\* C22: a user's stored isAdmin becomes true only by a login or profile
\* write whose stored name or phone matches the admin policy, or by the
\* update of a setAdmin with makeAdmin = true whose actor is an admin.
C22_OnlyPolicyOrSetAdminGrants ==
  [][\A u \in DOMAIN users' :
       (users'[u].is_admin /\ (u \in DOMAIN users => ~users[u].is_admin))
         => \/ \E p \in DOMAIN h :
                 /\ h[p].kind = "setAdmin" /\ h[p].pc = "adminUpdate" /\ Steps(p)
                 /\ h[p].target = u /\ h[p].mk = "true" /\ h[p].user.is_admin
            \/ \E p \in DOMAIN h :
                 /\ h[p].pc \in {"profWrite", "loginWrite"} /\ Steps(p)
                 /\ \/ users'[u].name = DEFAULT_ADMIN_NAME
                    \/ users'[u].phone \in ADMIN_PHONE_LIST]_vars

\* ------------------------------------------- a stale session token
\* u2 is an admin by an earlier grant, u1 by policy; part 1 is claimed.
\* The admin u1 demotes u1 or u2; once that has answered OK, the demoted
\* user sends a reset or a setAdmin with the token issued before, which
\* still asserts isAdmin.
InitStaleToken ==
  /\ users = [RaceUsers EXCEPT !["u2"].is_admin = TRUE]
  /\ weeks = [w \in {"w1"} |-> "K1"]
  /\ parts = [w \in {"w1"} |->
                [NewParts EXCEPT ![1] =
                   [claimed_by |-> "u3", claimed_name |-> <<"c">>, claimed_at |-> 1]]]
  /\ locks = {}
  /\ events = <<>>
  /\ nreq = 1
  /\ \E target \in {"u1", "u2"} :
       h = [i \in 1..2 |->
              IF i = 1
              THEN [kind |-> "setAdmin", pc |-> "getUser", id |-> 1, caller |-> "u1",
                    tokenAdmin |-> TRUE, target |-> target, mk |-> "false", n |-> NaN] @@ Idle
              ELSE Idle]

StaleResets ==
  {[caller |-> h[1].target, tokenAdmin |-> TRUE, weekKey |-> "K1", pname |-> x,
    pphone |-> y] : x \in {NULL, <<"b">>, <<"M">>}, y \in {NULL, <<"+", "1">>}}

StaleSetAdmins ==
  {[caller |-> h[1].target, tokenAdmin |-> TRUE, target |-> t, mk |-> m, weekId |-> NoId,
    n |-> NaN] : t \in {"u1", "u2", "u3"}, m \in {"true", "false"}}

NextStaleToken ==
  \/ \E p \in DOMAIN h : GetUser(p)
  \/ \E p \in DOMAIN h : AdminUpdate(p)
  \/ \E p \in DOMAIN h : ProfileRead(p)
  \/ \E p \in DOMAIN h : ProfileWrite(p)
  \/ \E p \in DOMAIN h : AdminCheck(p)
  \/ \E p \in DOMAIN h : WeekSelect(p)
  \/ \E p \in DOMAIN h : BulkClear(p)
  \/ \E p \in DOMAIN h : Commit(p)
  \/ \E p \in DOMAIN h : Rollback(p)
  \/ \E p \in DOMAIN h : Fetch(p)
  \/ (h[1].pc = "done" /\ h[1].result = "OK" /\ StartReset(2, StaleResets))
  \/ (h[1].pc = "done" /\ h[1].result = "OK" /\ StartSetAdmin(2, StaleSetAdmins))

SpecStaleToken == InitStaleToken /\ [][NextStaleToken]_vars

\* The stored record matches the admin policy by its name or its phone.
PolicyMatch(u) ==
  users[u].name = DEFAULT_ADMIN_NAME \/ users[u].phone \in ADMIN_PHONE_LIST

PoolFree ==
  PoolSize - Cardinality({p \in DOMAIN h : h[p].client /\ h[p].pc # "done"})

\* const client = await pool.connect()
PoolConnect(p) ==
  /\ At(p, TxKinds, "connect")
  /\ PoolFree > 0
  /\ Step(p, [client |-> TRUE,
              pc |-> IF h[p].kind = "resolve" THEN "weekSelect" ELSE "getUser"])
  /\ UNCHANGED <<users, weeks, parts, locks, events, nreq>>

\* await pool.query(..)
PoolQuery(A) == PoolFree > 0 /\ A

PoolReqs ==
  {[kind |-> "claim", caller |-> "u4", weekId |-> "w1", n |-> 1],
   [kind |-> "release", caller |-> "u2", weekId |-> "w1", n |-> 1],
   [kind |-> "reset", caller |-> "u1", weekKey |-> "K1"],
   [kind |-> "resolve", weekKey |-> "K1"]}

\* PoolSize requests are accepted together, each about to take its client.
InitPool ==
  /\ users = RaceUsers
  /\ weeks = [w \in {"w1"} |-> "K1"]
  /\ parts = [w \in {"w1"} |->
                [NewParts EXCEPT ![1] =
                   [claimed_by |-> "u2", claimed_name |-> <<"a">>, claimed_at |-> 1]]]
  /\ locks = {}
  /\ events = <<>>
  /\ nreq = PoolSize
  /\ \E reqs \in [1..PoolSize -> PoolReqs] :
       h = [i \in 1..PoolSize |-> [pc |-> "connect", id |-> i] @@ reqs[i] @@ Idle]

NextPool ==
  \/ \E p \in DOMAIN h : PoolConnect(p)
  \/ \E p \in DOMAIN h : PoolQuery(GetUser(p))
  \/ \E p \in DOMAIN h : LockPart(p)
  \/ \E p \in DOMAIN h : AdminCheck(p)
  \/ \E p \in DOMAIN h : WeekSelect(p)
  \/ \E p \in DOMAIN h : BulkClear(p)
  \/ \E p \in DOMAIN h : Commit(p)
  \/ \E p \in DOMAIN h : Rollback(p)
  \/ \E p \in DOMAIN h : Publish(p)
  \/ \E p \in DOMAIN h : PoolQuery(Fetch(p))

SpecPool == InitPool /\ [][NextPool]_vars

\* The event loop runs every continuation whose awaited result has arrived.
SpecPoolFair == SpecPool /\ WF_vars(NextPool)

QueryFails(p) ==
  /\ h[p].kind \in {"claim", "release", "reset"}
  /\ h[p].pc \in {"getUser", "lock", "weekSelect", "bulkClear", "commit", "fetch"}
  /\ Throw(p)
  /\ UNCHANGED <<users, weeks, parts, locks, events, nreq>>

NextQueryFails ==
  \/ \E p \in DOMAIN h : GetUser(p)
  \/ \E p \in DOMAIN h : AdminCheck(p)
  \/ \E p \in DOMAIN h : WeekSelect(p)
  \/ \E p \in DOMAIN h : BulkClear(p)
  \/ \E p \in DOMAIN h : LockPart(p)
  \/ \E p \in DOMAIN h : Commit(p)
  \/ \E p \in DOMAIN h : Rollback(p)
  \/ \E p \in DOMAIN h : Publish(p)
  \/ \E p \in DOMAIN h : Fetch(p)
  \/ \E p \in DOMAIN h : QueryFails(p)

SpecQueryFails == InitResetRace /\ [][NextQueryFails]_vars

\* C26: a claim, release or reset that has answered its operational
\* failure has committed nothing: its transaction did not commit, and if no
\* other request committed either, the claimed parts are as they were
\* before.
C26_FailureRollsBackInFull ==
  \A p \in DOMAIN h :
    (/\ h[p].kind \in {"claim", "release", "reset"}
     /\ h[p].pc = "done"
     /\ h[p].result = Failure(h[p].kind))
    => /\ ~h[p].committed
       /\ (\A q \in DOMAIN h \ {p} : ~h[q].committed)
          => /\ parts["w1"][1].claimed_by = "u2"
             /\ parts["w1"][NumParts].claimed_by = "u3"

\* ------------------------------------------- concurrent profile merges
\* u4 has a phone and no name.  Two profile updates of u4 and a login with
\* u4's phone are accepted together.
ProfileHints ==
  {[caller |-> "u4", pname |-> x, pphone |-> y] :
     x \in {NULL, <<"b">>}, y \in {NULL, <<"4">>}}

InitProfileRace ==
  /\ RaceStore
  /\ nreq = 3
  /\ \E a, b \in ProfileHints, x \in {<<"d">>, <<" ">>} :
       h = [i \in 1..3 |->
              CASE i = 1 -> [kind |-> "profile", pc |-> "profRead", id |-> 1] @@ a @@ Idle
                [] i = 2 -> [kind |-> "profile", pc |-> "profRead", id |-> 2] @@ b @@ Idle
                [] OTHER -> [kind |-> "login", pc |-> "loginSelect", id |-> 3,
                             pname |-> x, pphone |-> <<" ", "3">>] @@ Idle]

NextProfileRace ==
  \/ \E p \in DOMAIN h : ProfileRead(p)
  \/ \E p \in DOMAIN h : ProfileWrite(p)
  \/ \E p \in DOMAIN h : LoginSelect(p)
  \/ \E p \in DOMAIN h : LoginWrite(p)

SpecProfileRace == InitProfileRace /\ [][NextProfileRace]_vars

\* C27: the write of updateProfile or login to an existing record never
\* replaces a present name or phone by null or an empty value, and leaves a
\* field whose hint is absent or empty as it is stored.
C27_MergeKeepsStoredFields ==
  [][\A p \in DOMAIN h :
       (Steps(p) /\ h[p].pc \in {"profWrite", "loginWrite"} /\ h'[p].result = "OK"
          /\ h'[p].user.id \in DOMAIN users)
       => LET old == users[h'[p].user.id]
              new == users'[h'[p].user.id]
          IN /\ ~Falsy(old.name) => ~Falsy(new.name)
             /\ ~Falsy(old.phone) => ~Falsy(new.phone)
             /\ Falsy(OptTrim(h[p].pname)) => new.name = old.name
             /\ Falsy(h[p].pphone) => new.phone = old.phone]_vars

\* ------------------------------------------------------- two weeks
\* Week w1 (key K1) exists, week w2 (key K2) exists or not yet.  A Board
\* loads one of the keys and joins its room; a claim, a release and a reset
\* by the admin address one week or the other.
InitTwoWeeks ==
  /\ users = RaceUsers
  /\ locks = {}
  /\ events = <<>>
  /\ nreq = 4
  /\ \E ws \in {{"w1"}, {"w1", "w2"}} :
       /\ weeks = [w \in ws |-> IF w = "w1" THEN "K1" ELSE "K2"]
       /\ parts = [w \in ws |->
                     [NewParts EXCEPT ![1] =
                        IF w = "w1"
                        THEN [claimed_by |-> "u2", claimed_name |-> <<"a">>, claimed_at |-> 1]
                        ELSE [claimed_by |-> "u3", claimed_name |-> <<"c">>, claimed_at |-> 1]]]
  /\ \E k1, k4 \in WeekKeys, w2, w3 \in WeekIds, n2 \in {1, 2} :
       h = [i \in 1..4 |->
              CASE i = 1 -> [kind |-> "resolve", pc |-> "weekSelect", id |-> 1,
                             weekKey |-> k1] @@ Idle
                [] i = 2 -> [kind |-> "claim", pc |-> "getUser", id |-> 2, caller |-> "u4",
                             weekId |-> w2, n |-> n2] @@ Idle
                [] i = 3 -> [kind |-> "release", pc |-> "getUser", id |-> 3, caller |-> "u2",
                             weekId |-> w3, n |-> 1] @@ Idle
                [] OTHER -> [kind |-> "reset", pc |-> "getUser", id |-> 4, caller |-> "u1",
                             weekKey |-> k4] @@ Idle]

NextTwoWeeks ==
  \/ \E p \in DOMAIN h : GetUser(p)
  \/ \E p \in DOMAIN h : AdminCheck(p)
  \/ \E p \in DOMAIN h : WeekSelect(p)
  \/ \E p \in DOMAIN h : EnsureSelect(p)
  \/ \E p \in DOMAIN h : WeekInsert(p)
  \/ \E p \in DOMAIN h : PartsInsert(p)
  \/ \E p \in DOMAIN h : BulkClear(p)
  \/ \E p \in DOMAIN h : LockPart(p)
  \/ \E p \in DOMAIN h : Commit(p)
  \/ \E p \in DOMAIN h : Rollback(p)
  \/ \E p \in DOMAIN h : Publish(p)
  \/ \E p \in DOMAIN h : Fetch(p)
  \/ \E p \in DOMAIN h : JoinWeek(p)

SpecTwoWeeks == InitTwoWeeks /\ [][NextTwoWeeks]_vars

\* The events the socket of Board r has received when es are published.
InboxOf(r, es) ==
  IF r.kind = "resolve" /\ r.joined
  THEN Delivered(SubSeq(es, r.missed + 1, Len(es)), r.wk)
  ELSE <<>>

\* ------------------------------------------- the holder claims again
\* A part is claimed by its holder.  The holder claims it again, with or
\* without a name override, while another claim of the same part, by any
\* user, is in flight.
HeldRow(owner) ==
  [claimed_by |-> owner,
   claimed_name |-> claimedName(NULL, UserRow(owner, RaceUsers[owner])),
   claimed_at |-> 1]

InitReclaim ==
  /\ users = RaceUsers
  /\ weeks = [w \in {"w1"} |-> "K1"]
  /\ locks = {}
  /\ events = <<>>
  /\ nreq = 2
  /\ \E n \in {1, NumParts}, owner \in UserIds, other \in UserIds,
        x \in {NULL, <<"b", " ">>} :
       /\ parts = [w \in {"w1"} |-> [NewParts EXCEPT ![n] = HeldRow(owner)]]
       /\ h = [i \in 1..2 |->
                 IF i = 1
                 THEN [kind |-> "claim", pc |-> "getUser", id |-> 1, caller |-> owner,
                       weekId |-> "w1", n |-> n, pname |-> x] @@ Idle
                 ELSE [kind |-> "claim", pc |-> "getUser", id |-> 2, caller |-> other,
                       weekId |-> "w1", n |-> n] @@ Idle]

NextReclaim ==
  \/ \E p \in DOMAIN h : GetUser(p)
  \/ \E p \in DOMAIN h : ProfileRead(p)
  \/ \E p \in DOMAIN h : ProfileWrite(p)
  \/ \E p \in DOMAIN h : LockPart(p)
  \/ \E p \in DOMAIN h : Rollback(p)

SpecReclaim == InitReclaim /\ [][NextReclaim]_vars

\* ------------------------------------------- resolveWeek called again
\* Week w1 (key K1) exists with part 1 claimed.  A client resolves a key,
\* seen or unseen, and resolves the same key again each time the call
\* before has answered; a claim and a release of week w1 run alongside.
InitResolveAgain ==
  /\ users = RaceUsers
  /\ weeks = [w \in {"w1"} |-> "K1"]
  /\ parts = [w \in {"w1"} |-> [NewParts EXCEPT ![1] = HeldRow("u2")]]
  /\ locks = {}
  /\ events = <<>>
  /\ nreq = 0
  /\ \E n \in {1, 2} :
       h = [i \in 1..4 |->
              CASE i = 3 -> [kind |-> "claim", pc |-> "getUser", id |-> MaxReqs + 1,
                             caller |-> "u4", weekId |-> "w1", n |-> n] @@ Idle
                [] i = 4 -> [kind |-> "release", pc |-> "getUser", id |-> MaxReqs + 2,
                             caller |-> "u2", weekId |-> "w1", n |-> 1] @@ Idle
                [] OTHER -> Idle]

NextResolveAgain ==
  \/ (h[1].pc = "idle" /\ StartResolve(1, ResolveReqs))
  \/ (h[1].pc = "done" /\ StartResolve(2, {[weekKey |-> h[1].weekKey]}))
  \/ \E p \in DOMAIN h : WeekSelect(p)
  \/ \E p \in DOMAIN h : EnsureSelect(p)
  \/ \E p \in DOMAIN h : WeekInsert(p)
  \/ \E p \in DOMAIN h : PartsInsert(p)
  \/ \E p \in DOMAIN h : Commit(p)
  \/ \E p \in DOMAIN h : Fetch(p)
  \/ \E p \in DOMAIN h : GetUser(p)
  \/ \E p \in DOMAIN h : LockPart(p)
  \/ \E p \in DOMAIN h : Rollback(p)
  \/ \E p \in DOMAIN h : Publish(p)

SpecResolveAgain == InitResolveAgain /\ [][NextResolveAgain]_vars

\* ------------------------------------------ the general specification
\* C2: in every committed state claimedBy, claimedName and claimedAt of a
\* part are all null or all non-null.
C2_PartFieldsTogether ==
  \A w \in DOMAIN parts : \A n \in DOMAIN parts[w] :
    LET r == parts[w][n] IN
    /\ (r.claimed_by = NoId) <=> (r.claimed_name = NULL)
    /\ (r.claimed_name = NULL) <=> (r.claimed_at = NoTime)

\* C3: a release that finds its part claimed by nobody or by another user
\* is refused with NOT_OWNER, admin or not, and neither its refusal nor its
\* rollback changes any part.
C3_ReleaseByNonOwnerRefused ==
  [][\A p \in DOMAIN h :
       (h[p].kind = "release" /\ Steps(p)) =>
         /\ (/\ h[p].pc = "lock"
             /\ PartExists(h[p].weekId, h[p].n)
             /\ parts[h[p].weekId][h[p].n].claimed_by # h[p].caller)
            => (h'[p].pc = "rollback" /\ h'[p].err = "NOT_OWNER" /\ parts' = parts)
         /\ (h[p].pc = "rollback" /\ h[p].err = "NOT_OWNER")
            => (/\ h'[p].pc = "done"
                /\ h'[p].result = "NOT_OWNER"
                /\ ~h'[p].committed
                /\ parts' = parts)]_vars

\* An admin was refused the release of a part another user holds.
C3_Witness ==
  \E p \in DOMAIN h :
    /\ h[p].kind = "release" /\ h[p].pc = "done" /\ h[p].result = "NOT_OWNER"
    /\ h[p].user.is_admin
    /\ h[p].seen \notin {NoId, h[p].caller}
    /\ parts[h[p].weekId][h[p].n].claimed_by = h[p].seen

C6_ResetSnapshotAllFree ==
  /\ \A p \in DOMAIN h :
       (h[p].kind = "reset" /\ h[p].pc = "done" /\ h[p].result = "OK")
         => \A n \in DOMAIN h[p].snap : h[p].snap[n].claimed_by = NoId
  /\ \A i \in 1..Len(events) :
       events[i].type = "week:reset"
         => \A n \in DOMAIN events[i].parts : events[i].parts[n].claimed_by = NoId

\* C7: two resolveWeek requests for one key that have both answered both
\* succeeded and returned the same week id.
C7_ResolveRaceBothSucceed ==
  \A p, q \in DOMAIN h :
    (/\ p # q
     /\ h[p].kind = "resolve" /\ h[q].kind = "resolve"
     /\ h[p].weekKey = h[q].weekKey
     /\ h[p].pc = "done" /\ h[q].pc = "done")
    => (h[p].result = "OK" /\ h[q].result = "OK" /\ h[p].wk = h[q].wk)

\* C8: every committed week has exactly the parts 1..30, and parts exist
\* only for committed weeks.
C8_WeekHasAllParts ==
  /\ DOMAIN parts = DOMAIN weeks
  /\ \A w \in DOMAIN weeks : DOMAIN parts[w] = 1..NumParts

\* A second week was created while another creation of it was rolled back.
C8_Witness ==
  /\ "w2" \in DOMAIN weeks
  /\ \E p \in DOMAIN h : h[p].kind \in {"resolve", "reset"} /\ h[p].pc = "done"
                        /\ h[p].result \in {"WEEK_FETCH_FAILED", "RESET_FAILED"}

\* C9: the admin check of a reset and its clear are atomic: no reset passes
\* its check (taken after BEGIN) and none commits its bulk clear while its
\* caller's stored isAdmin is false.
C9_ResetAuthorizedAtomically ==
  [][\A p \in DOMAIN h :
       (/\ h[p].kind = "reset"
        /\ Steps(p)
        /\ \/ h[p].pc = "adminCheck" /\ h'[p].pc = "weekSelect"
           \/ h[p].pc = "commit")
         => (h[p].caller \in DOMAIN users /\ users[h[p].caller].is_admin)]_vars

\* C10: a request that answered a failure published nothing, and every
\* event was published by a request whose commit had already run.
C10_FailedNeverEmits ==
  /\ \A p \in DOMAIN h : h[p].result \notin {"", "OK"} => h[p].emitted = 0
  /\ \A p \in DOMAIN h : h[p].emitted > 0 => h[p].committed
  /\ \A i \in 1..Len(events) : events[i].afterCommit

\* A claim or release was refused after an event had been published.
C10_Witness ==
  /\ Len(events) > 0
  /\ \E p \in DOMAIN h :
       h[p].pc = "done" /\ h[p].result \in {"ALREADY_CLAIMED", "NOT_OWNER", "NOT_ADMIN"}

\* C13: a setAdmin whose actor's stored isAdmin is false when the handler
\* reads it answers NOT_ADMIN and changes no user; by an admin actor on an
\* existing target it sets the target's isAdmin to exactly makeAdmin and
\* changes nothing else of any user; on a target that does not exist it
\* answers USER_NOT_FOUND and changes nothing.  No other step of the
\* request changes a user.
C13_SetAdminSetsExactly ==
  [][\A p \in DOMAIN h :
       (h[p].kind = "setAdmin" /\ Steps(p)) =>
         /\ (h[p].pc = "getUser" /\ h[p].caller \in DOMAIN users)
            => (h'[p].user.is_admin = users[h[p].caller].is_admin /\ users' = users)
         /\ (h[p].pc = "adminUpdate" /\ ~h[p].user.is_admin)
            => (h'[p].pc = "done" /\ h'[p].result = "NOT_ADMIN" /\ users' = users)
         /\ (h[p].pc = "adminUpdate" /\ h[p].user.is_admin /\ h[p].target \notin DOMAIN users)
            => (h'[p].pc = "done" /\ h'[p].result = "USER_NOT_FOUND" /\ users' = users)
         /\ (h[p].pc = "adminUpdate" /\ h[p].user.is_admin /\ h[p].target \in DOMAIN users)
            => /\ DOMAIN users' = DOMAIN users
               /\ users'[h[p].target].is_admin = (h[p].mk = "true")
               /\ users'[h[p].target].name = users[h[p].target].name
               /\ users'[h[p].target].phone = users[h[p].target].phone
               /\ \A u \in DOMAIN users \ {h[p].target} : users'[u] = users[u]
               /\ h'[p].result \in {"", "OK"}
         /\ h[p].pc = "partRead" => (users' = users /\ h'[p].result = "OK")]_vars

\* An admin has demoted itself and a non-admin's setAdmin was refused.
C13_Witness ==
  \E p, q \in DOMAIN h :
    /\ h[p].kind = "setAdmin" /\ h[p].pc = "done" /\ h[p].result = "OK"
    /\ h[p].target = h[p].caller /\ h[p].mk = "false"
    /\ ~users[h[p].target].is_admin
    /\ h[q].kind = "setAdmin" /\ h[q].pc = "done" /\ h[q].result = "NOT_ADMIN"

\* C14: a user's stored isAdmin goes from true to false only by the update
\* of a setAdmin request with makeAdmin = false on that user; no login and
\* no profile update (of the profile, claim or reset routes) revokes it.
C14_OnlySetAdminRevokes ==
  [][\A u \in DOMAIN users :
       (users[u].is_admin /\ ~users'[u].is_admin)
         => \E p \in DOMAIN h :
              /\ h[p].kind = "setAdmin" /\ h[p].pc = "adminUpdate" /\ Steps(p)
              /\ h[p].target = u /\ h[p].mk = "false"]_vars

\* C15: no two user records have the same phone, and every login with a
\* name and a phone succeeds (it updates the record of its phone, or
\* creates the first one), also when another login for the same phone runs
\* beside it.
C15_PhoneUniqueLoginSucceeds ==
  /\ \A a, b \in DOMAIN users :
       (a # b /\ users[a].phone # NULL) => users[a].phone # users[b].phone
  /\ \A p \in DOMAIN h :
       (h[p].kind = "login" /\ h[p].pc = "done" /\ h[p].result # "NAME_AND_PHONE_REQUIRED")
         => /\ h[p].result = "OK"
            /\ h[p].user.id \in DOMAIN users
            /\ h[p].user.phone = normalizePhone(h[p].pphone)

\* C16: a claim that answered ALREADY_CLAIMED has mutated nothing: its
\* caller's user record is the one stored before the request (in the claim
\* race no other request touches it), the part is not its caller's, and it
\* holds no lock.
C16_RefusedClaimMutatesNothing ==
  \A p \in DOMAIN h :
    (h[p].kind = "claim" /\ h[p].pc = "done" /\ h[p].result = "ALREADY_CLAIMED")
      => /\ users[h[p].caller] = RaceUsers[h[p].caller]
         /\ parts[h[p].weekId][h[p].n].claimed_by # h[p].caller
         /\ LocksOf(p) = {}

\* C17: a request of the profile, claim, release, reset or admin route
\* that found no user for its caller's id (it holds no user row and was not
\* refused for its path or body) has answered USER_NOT_FOUND, not its
\* route's generic failure.
C17_UnknownCallerIsUserNotFound ==
  \A p \in DOMAIN h :
    (/\ h[p].kind \in {"profile", "claim", "release", "reset", "setAdmin"}
     /\ h[p].pc = "done"
     /\ h[p].user = NoUser /\ h[p].existing = NoUser
     /\ h[p].result \notin {"BAD_REQUEST", "INVALID_BODY"})
    => h[p].result = "USER_NOT_FOUND"

\* What a Board shows that loaded week w1 and joined its room before the
\* first request: the initial snapshot (every part free) with every event
\* of the room applied in publication order.
SubscriberView ==
  BoardView([n \in 1..NumParts |-> [NoPayload EXCEPT !.number = n]], "w1", 0)

\* C20: once every request has answered, a subscriber that joined the week
\* before the first request and applied every event in publication order
\* shows, for each part, the part's committed claimedBy.
C20_SubscriberCatchesUp ==
  (\A p \in DOMAIN h : h[p].pc \in {"idle", "done"})
    => \A n \in DOMAIN parts["w1"] :
         SubscriberView[n].claimed_by = parts["w1"][n].claimed_by

\* C24: a handler holds part locks only between its locking statement and
\* the COMMIT or ROLLBACK of the same transaction: the step that publishes
\* an event is taken by a handler holding no lock, a handler that has
\* answered (OK or any error) holds none, and a claim or release holds the
\* lock of at most one part, the addressed one.
C24_LocksWithinOneTransaction ==
  [][\A p \in DOMAIN h :
       /\ (Steps(p) /\ events' # events) => LocksOf(p) = {}
       /\ h'[p].pc = "done" => {l \in locks' : l[3] = p} = {}
       /\ {l \in locks' : l[3] = p} # {} => h'[p].pc \in {"commit", "rollback"}
       /\ h'[p].kind \in {"claim", "release"}
          => {l \in locks' : l[3] = p} \subseteq {<<h'[p].weekId, h'[p].n, p>>}]_vars

\* A refused claim, a release and the reset have all held a lock and
\* answered, two events are published, and no lock is left.
C24_Witness ==
  /\ \A p \in DOMAIN h : h[p].pc = "done"
  /\ h[1].result = "OK" /\ h[3].result = "OK"
  /\ h[2].found /\ h[2].result = "ALREADY_CLAIMED"
  /\ Len(events) >= 2
  /\ locks = {}

\* C28: the COMMIT of a successful claim stores claimed_by = the caller and
\* claimed_name = the trimmed name override if one is given, else the
\* caller's stored name; the COMMIT of a successful release stores the
\* free row; the publishing step of either appends exactly one event,
\* whose part carries the claimed_by and claimed_name just committed, and
\* answers the same two values.
C28_ClaimCommitsCallerAndName ==
  [][\A p \in DOMAIN h :
       LET r == h[p]
           given == ~Falsy(OptTrim(r.pname))
           committed == IF r.kind = "claim" THEN r.wr ELSE FreePart
       IN /\ (Steps(p) /\ r.pc = "commit" /\ r.kind = "claim")
             => /\ parts'[r.weekId][r.n].claimed_by = r.caller
                /\ parts'[r.weekId][r.n].claimed_name =
                     IF given THEN Trim(r.pname) ELSE users[r.caller].name
                /\ parts'[r.weekId][r.n] = r.wr
          /\ (Steps(p) /\ r.pc = "commit" /\ r.kind = "release")
             => parts'[r.weekId][r.n] = FreePart
          /\ (Steps(p) /\ r.pc = "publish")
             => /\ Len(events') = Len(events) + 1
                /\ LET e == events'[Len(events')] IN
                   /\ e.type = "part:update" /\ e.room = r.weekId /\ e.part.number = r.n
                   /\ e.part.claimed_by = committed.claimed_by
                   /\ e.part.claimed_name = committed.claimed_name
                /\ h'[p].result = "OK"
                /\ h'[p].resp.claimed_by = committed.claimed_by
                /\ h'[p].resp.claimed_name = committed.claimed_name
                /\ parts[r.weekId][r.n] = committed]_vars

\* A release and then a claim with a name override have answered: the
\* first event carries the cleared fields, the second the caller and the
\* override, as the part has them.
C28_Witness ==
  /\ h[1].pc = "done" /\ h[1].result = "OK"
  /\ h[2].pc = "done" /\ h[2].result = "OK" /\ h[2].pname = <<"b", " ">>
  /\ Len(events) = 2
  /\ events[1].part.claimed_by = NoId /\ events[1].part.claimed_name = NULL
  /\ events[2].part.claimed_by = h[2].caller /\ events[2].part.claimed_name = <<"b">>
  /\ parts["w1"][h[2].n].claimed_name = <<"b">>

\* C29: a step publishes at most one event, to the room of the week its
\* handler addressed; the event is added once to the inbox of each socket
\* that is in that room when it is published and to no other inbox;
\* joining a room adds nothing to the inbox; no inbox holds an event twice.
C29_DeliveredOnceToTheGroup ==
  [][/\ events' # events
        => /\ events' = Append(events, events'[Len(events')])
           /\ \E p \in DOMAIN h :
                /\ Steps(p)
                /\ events'[Len(events')].room =
                     IF h[p].kind = "reset" THEN h[p].wk ELSE h[p].weekId
     /\ \A q \in DOMAIN h :
          LET before == InboxOf(h[q], events)
              after == InboxOf(h'[q], events')
          IN /\ IF events' # events /\ h[q].kind = "resolve" /\ h[q].joined
                   /\ events'[Len(events')].room = h[q].wk
                THEN after = Append(before, events'[Len(events')])
                ELSE after = before
             /\ \A i, j \in 1..Len(after) : i < j => after[i] # after[j]]_vars

\* A Board joined its room after an event had been published and has
\* received a later one, while an event of the other week was published.
C29_Witness ==
  /\ h[1].joined /\ h[1].missed >= 1
  /\ Len(InboxOf(h[1], events)) >= 1
  /\ \E i \in 1..Len(events) : events[i].room # h[1].wk

\* C30: a step of a claim or a release changes no part but the addressed
\* one and no week; a step of a reset changes no part of a week other than
\* its own and no existing week, and if it adds a week, its key was unseen
\* and the week comes with NumParts free parts; no step of the three
\* removes a week or a part or adds a part to an existing week.
C30_FrameOfPartMutations ==
  [][\A p \in DOMAIN h :
       (Steps(p) /\ h[p].kind \in {"claim", "release", "reset"})
       => LET r == h[p] IN
          /\ DOMAIN weeks \subseteq DOMAIN weeks'
          /\ DOMAIN parts' = DOMAIN weeks'
          /\ \A w \in DOMAIN weeks :
               /\ weeks'[w] = weeks[w]
               /\ DOMAIN parts'[w] = DOMAIN parts[w]
               /\ \A n \in DOMAIN parts[w] :
                    parts'[w][n] # parts[w][n]
                    => IF r.kind = "reset" THEN w = r.wk
                       ELSE w = r.weekId /\ n = r.n
          /\ \A w \in DOMAIN weeks' \ DOMAIN weeks :
               /\ r.kind = "reset"
               /\ weeks'[w] = r.weekKey
               /\ \A v \in DOMAIN weeks : weeks[v] # r.weekKey
               /\ parts'[w] = NewParts]_vars

\* The reset of the unseen key K2 has created week w2 with its free parts
\* and left week w1 as the release of part 1 and the claim of part 2 had it.
C30_Witness ==
  /\ h[4].pc = "done" /\ h[4].result = "OK" /\ h[4].newParts = FALSE /\ h[4].weekKey = "K2"
  /\ "w2" \in DOMAIN weeks /\ weeks["w2"] = "K2" /\ parts["w2"] = NewParts
  /\ h[1].weekKey = "K1"
  /\ h[3].pc = "done" /\ h[3].result = "OK"
  /\ h[2].pc = "done" /\ h[2].result = "OK" /\ h[2].weekId = "w1" /\ h[2].n = 2
  /\ parts["w1"][1] = FreePart /\ parts["w1"][2].claimed_by = "u4"

\* C31: a claim by the user who holds the part never reaches its update:
\* once answered it has answered ALREADY_CLAIMED, as the claim of any other
\* caller has; the part keeps the claimed_by, claimed_name and claimed_at
\* it had, also when the request carries a new name, and no event is
\* published.
C31_HolderClaimIsRefused ==
  \A p \in DOMAIN h :
    h[p].kind = "claim" =>
      /\ h[p].pc \in {"getUser", "profRead", "profWrite", "lock", "rollback", "done"}
      /\ ~h[p].committed /\ h[p].emitted = 0
      /\ h[p].pc = "done" => h[p].result = "ALREADY_CLAIMED"
      /\ parts[h[p].weekId][h[p].n] = HeldRow(h[1].caller)
      /\ events = <<>>

\* The holder u2, claimed under the name "a", has claimed again as "b": the
\* request is refused, the stored name is "b" and the part still says "a".
C31_Witness ==
  /\ h[1].caller = "u2" /\ h[1].pc = "done" /\ h[1].result = "ALREADY_CLAIMED"
  /\ h[1].seen = "u2"
  /\ users["u2"].name = <<"b">>
  /\ parts["w1"][h[1].n].claimed_name = <<"a">>
  /\ parts["w1"][h[1].n].claimed_at = 1

\* C32: no step of a resolveWeek changes an existing week or any field of
\* an existing part; a step that adds a week adds the one of the call's
\* key, unseen until then, with NumParts free parts; a call made after an
\* earlier call with the same key has answered changes nothing at all,
\* never reaches the inserts, and answers OK with the week id the earlier
\* call returned.
C32_ResolveIsGetOrCreate ==
  [][\A p \in DOMAIN h :
       (Steps(p) /\ h[p].kind = "resolve")
       => /\ \A w \in DOMAIN weeks :
               /\ w \in DOMAIN weeks' /\ weeks'[w] = weeks[w]
               /\ w \in DOMAIN parts' /\ parts'[w] = parts[w]
          /\ \A w \in DOMAIN weeks' \ DOMAIN weeks :
               /\ w = h[p].wk /\ weeks'[w] = h[p].weekKey
               /\ \A v \in DOMAIN weeks : weeks[v] # h[p].weekKey
               /\ parts'[w] = NewParts
          /\ DOMAIN parts' = DOMAIN weeks'
          /\ h[p].id > h[1].id
             => /\ weeks' = weeks /\ parts' = parts
                /\ h'[p].pc \in {"commit", "fetch", "done"}
                /\ h'[p].wk = h[1].wk
                /\ h'[p].newWeek = NoId
                /\ h'[p].pc = "done"
                   => /\ h'[p].result = "OK"
                      /\ h'[p].snap = fetchParts(h[1].wk)]_vars

\* The first call created week w2 for the unseen key K2, the second
\* returned w2 again, and week w1 has the claim made in the meantime.
C32_Witness ==
  /\ h[1].pc = "done" /\ h[1].result = "OK" /\ h[1].weekKey = "K2" /\ h[1].wk = "w2"
  /\ h[2].pc = "done" /\ h[2].result = "OK" /\ h[2].id > h[1].id /\ h[2].wk = "w2"
  /\ parts["w2"] = NewParts
  /\ parts["w1"][2].claimed_by = "u4"
  /\ parts["w1"][1].claimed_by = "u2"

====
